---- MODULE Spec2Model ----
(***************************************************************************)
(* Water_Data: gap filling of a 15-minute water-level series.              *)
(*                                                                         *)
(* Two application files carry the same functions:                         *)
(*   src/streamlit_app.py  (variant "streamlit_app")                        *)
(*   src/test.py           (variant "test", the extended one)               *)
(*                                                                         *)
(* A DataFrame is modelled as a table: a function from a datetime (minutes *)
(* since the table's epoch) to the sequence of wl_up values of the rows    *)
(* that carry that datetime.  NaN is the absent value.                     *)
(***************************************************************************)
EXTENDS Integers, FiniteSets, Sequences, TLC

VARIABLES
    variant,              \* which file's functions run
    uIn, uOut, uPc,       \* one call of a single function: arguments, result, position
    gaps,                 \* the uploaded series: how many readings each week misses
    window,               \* <<start_date, end_date>> the user picked
    delete_range,         \* <<delete_start, delete_end>> the user picked, <<>> for none
    pc,                   \* position inside handle_missing_values_by_week
    data_clean,           \* the data_clean argument (gridded table)
    data_with_all_dates,  \* wl_up column of the window's grid
    wl_forecast,          \* wl_forecast column (rows written so far)
    data_missing,         \* datetimes of the snapshot of missing rows
    data_not_missing,     \* snapshot of the present rows (datetime -> wl_up)
    weeks_with_fewer_missing, weeks_with_more_missing,
    done_weeks,           \* weeks whose loop iteration has run, in order
    model,                \* the model fitted last
    writes,               \* how many times each row received a prediction
    messages,             \* st.write / st.warning output
    wl_up2                \* merged column of the returned table

inputs == <<variant, uIn, uOut, uPc, gaps, window, delete_range>>

vars == <<variant, uIn, uOut, uPc, gaps, window, delete_range, pc, data_clean,
          data_with_all_dates, wl_forecast, data_missing, data_not_missing,
          weeks_with_fewer_missing, weeks_with_more_missing, done_weeks,
          model, writes, messages, wl_up2>>

Variants == {"streamlit_app", "test"}

-----------------------------------------------------------------------------
(* Values and small helpers *)

NaN == -1
NaT == NaN
Freq == 15
ValidMin == 100
ValidMax == 450
MinutesPerDay == 24 * 60

IsNull(v) == v = NaN

Min2(a, b) == IF a <= b THEN a ELSE b
SetMin(S) == CHOOSE x \in S : \A y \in S : x <= y
SetMax(S) == 0 - SetMin({0 - x : x \in S})

RECURSIVE SeqFilterValid(_, _, _)
SeqFilterValid(s, lo, hi) ==
    IF s = <<>> THEN <<>>
    ELSE IF Head(s) >= lo /\ Head(s) <= hi /\ Head(s) # 0 /\ ~IsNull(Head(s))
         THEN <<Head(s)>> \o SeqFilterValid(Tail(s), lo, hi)
         ELSE SeqFilterValid(Tail(s), lo, hi)

\* the number of rows of table t whose datetime is in D
SumLen(t, D) == Cardinality(UNION {{d} \X DOMAIN t[d] : d \in D})

RowCount(t) == SumLen(t, DOMAIN t)

EmptyTable == [d \in {} |-> <<>>]

RECURSIVE ValuesAt(_, _)
ValuesAt(rows, d) ==
    IF rows = <<>> THEN <<>>
    ELSE IF Head(rows)[1] = d THEN <<Head(rows)[2]>> \o ValuesAt(Tail(rows), d)
         ELSE ValuesAt(Tail(rows), d)

\* a DataFrame given as a sequence of <<datetime, wl_up>> rows, as a table
TableOf(rows) == [d \in {rows[i][1] : i \in DOMAIN rows} |-> ValuesAt(rows, d)]

-----------------------------------------------------------------------------
(* clean_data *)

CleanCell(s) == SeqFilterValid(s, ValidMin, ValidMax)

CleanData(df) ==
    LET keep == {d \in DOMAIN df : d # NaT /\ CleanCell(df[d]) # <<>>}
    IN [d \in keep |-> CleanCell(df[d])]

-----------------------------------------------------------------------------
(* generate_missing_dates *)

\* data['datetime'].min() of an empty frame is NaT and pd.date_range raises
GridFails(data) == DOMAIN data = {}

\* pd.date_range(start, end, freq='15T')
DateRange(start, end) == {start + Freq * k : k \in 0..((end - start) \div Freq)}

FullDateRange(data) ==
    UNION {DateRange(lo, hi) : <<lo, hi>> \in {<<SetMin(DOMAIN data), SetMax(DOMAIN data)>>}}

GenerateMissingDates(data) ==
    [g \in FullDateRange(data) |-> IF g \in DOMAIN data THEN data[g] ELSE <<NaN>>]

-----------------------------------------------------------------------------
(* delete_data_by_date_range *)

DataToDelete(data, ds, de) == {d \in DOMAIN data : d >= ds /\ d <= de}

SetWlUpNaN(data, D) ==
    [d \in DOMAIN data |-> IF d \in D THEN [i \in DOMAIN data[d] |-> NaN] ELSE data[d]]

\* len(data_to_delete) > (0.3 * len(data)), in tenths
TooManyToDelete(n, total) == 10 * n > 3 * total

DeleteStreamlitApp(data, ds, de) ==
    LET D == DataToDelete(data, ds, de)
    IN IF D # {} THEN [data |-> SetWlUpNaN(data, D), msg |-> "none"]
       ELSE [data |-> data, msg |-> "no_data_found"]

DeleteTest(data, ds, de) ==
    LET D == DataToDelete(data, ds, de)
        n == SumLen(data, D)
    IN IF n = 0 THEN [data |-> data, msg |-> "no_data_found"]
       ELSE IF TooManyToDelete(n, RowCount(data))
            THEN [data |-> data, msg |-> "rejected"]
            ELSE [data |-> SetWlUpNaN(data, D), msg |-> "none"]

DeleteDataByDateRange(v, data, ds, de) ==
    IF v = "test" THEN DeleteTest(data, ds, de) ELSE DeleteStreamlitApp(data, ds, de)

-----------------------------------------------------------------------------
(* calculate_accuracy_metrics *)

\* pd.merge(original, filled, on='datetime'): one row per pair of rows that
\* share a datetime
MergedData(original, filled) ==
    UNION {{d} \X (DOMAIN original[d]) \X (DOMAIN filled[d]) :
              d \in DOMAIN original \cap DOMAIN filled}

Abs(x) == IF x < 0 THEN -x ELSE x

RECURSIVE SumOver(_, _, _, _)
SumOver(M, original, filled, sq) ==
    IF M = {} THEN 0
    ELSE LET m == CHOOSE x \in M : TRUE
             e == original[m[1]][m[2]] - filled[m[1]][m[3]]
         IN (IF sq THEN e * e ELSE Abs(e)) + SumOver(M \ {m}, original, filled, sq)

\* MetricsRaise without the check for an empty array
MetricsRaiseOnNaN(M, original, filled) ==
    \E m \in M : IsNull(original[m[1]][m[2]]) \/ IsNull(filled[m[1]][m[3]])

\* mean_squared_error raises ValueError on an empty array or on a NaN
MetricsRaise(M, original, filled) ==
    \/ M = {}
    \/ \E m \in M : IsNull(original[m[1]][m[2]]) \/ IsNull(filled[m[1]][m[3]])

CalculateAccuracyMetrics(original, filled) ==
    LET M == MergedData(original, filled)
    IN IF MetricsRaise(M, original, filled)
       THEN [status |-> "raised", n |-> Cardinality(M), sse |-> NaN, sae |-> NaN]
       ELSE [status |-> "shown", n |-> Cardinality(M),
             sse |-> SumOver(M, original, filled, TRUE),
             sae |-> SumOver(M, original, filled, FALSE)]

-----------------------------------------------------------------------------
(* create_time_features: the calendar columns the imputation reads.         *)
(* A day is numbered from 2023-01-01 (day 0, a Sunday).                     *)

YearOfDay(n) == IF n < 365 THEN 2023 ELSE IF n < 365 + 366 THEN 2024 ELSE 2025
DayOfYear(n) ==
    IF n < 365 THEN n + 1 ELSE IF n < 365 + 366 THEN n - 364 ELSE n - (364 + 366)
IsLeap(y) == (y % 4 = 0 /\ y % 100 # 0) \/ y % 400 = 0

DaysInMonth(y, m) ==
    IF m = 2 THEN (IF IsLeap(y) THEN 29 ELSE 28)
    ELSE IF m \in {4, 6, 9, 11} THEN 30 ELSE 31

RECURSIVE DaysBeforeMonth(_, _)
DaysBeforeMonth(y, m) ==
    IF m = 1 THEN 0 ELSE DaysBeforeMonth(y, m - 1) + DaysInMonth(y, m - 1)

MonthOfDay(n) ==
    CHOOSE m \in 1..12 :
        /\ DaysBeforeMonth(YearOfDay(n), m) < DayOfYear(n)
        /\ DayOfYear(n) <= DaysBeforeMonth(YearOfDay(n), m) + DaysInMonth(YearOfDay(n), m)

\* dt.dayofweek: Monday = 0
DayOfWeek(n) == (n + 6) % 7

YearCode(y) == (y + (y \div 4) - (y \div 100) + (y \div 400)) % 7
WeeksInYear(y) == IF YearCode(y) = 4 \/ YearCode(y - 1) = 3 THEN 53 ELSE 52

\* dt.isocalendar().week
IsoWeekOfDay(n) ==
    LET w == (DayOfYear(n) - (DayOfWeek(n) + 1) + 10) \div 7
    IN IF w < 1 THEN WeeksInYear(YearOfDay(n) - 1)
       ELSE IF w > WeeksInYear(YearOfDay(n)) THEN 1 ELSE w

-----------------------------------------------------------------------------
(* The uploaded series.  It starts on Sunday 2024-05-19 and runs over that  *)
(* day and NumWeeks whole ISO weeks; week i of the series misses its first  *)
(* gaps[i] readings: the first three of them are present but invalid (0,    *)
(* 99, 451), the others are absent from the file.                           *)

NumWeeks == 3
SlotsPerDay == MinutesPerDay \div Freq
SlotsPerWeek == 7 * SlotsPerDay
TableStartDay == 365 + 31 + 29 + 31 + 30 + 18
TableDays == 1 + 7 * NumWeeks
TableTimes == {Freq * k : k \in 0..(TableDays * SlotsPerDay - 1)}

DayOf(dt) == TableStartDay + (dt \div MinutesPerDay)

\* a second upload holds the same series 31 weeks later: it starts on Sunday
\* 2024-12-22 and runs over the turn of the year
YearEndOrigin == 31 * 7 * MinutesPerDay
CalendarTimes == TableTimes \cup {d + YearEndOrigin : d \in TableTimes}

MonthTab == [dt \in CalendarTimes |-> MonthOfDay(DayOf(dt))]
WeekTab == [dt \in CalendarTimes |-> IsoWeekOfDay(DayOf(dt))]
Month(dt) == MonthTab[dt]
WeekOfYear(dt) == WeekTab[dt]

GapLens == {288, 289, 672}

\* series week (1..NumWeeks) and slot within it of a datetime after day 0
SeriesWeek(dt) == ((dt - MinutesPerDay) \div (SlotsPerWeek * Freq)) + 1
SeriesSlot(dt) == ((dt - MinutesPerDay) \div Freq) % SlotsPerWeek

ValidReading(dt) == ValidMin + (((dt \div Freq) * 37) % (ValidMax - ValidMin + 1))
InvalidReading(slot) == IF slot = 0 THEN 0 ELSE IF slot = 1 THEN ValidMin - 1 ELSE ValidMax + 1

InGap(g, dt) == dt >= MinutesPerDay /\ SeriesSlot(dt) < g[SeriesWeek(dt)]

RawDf(g) ==
    [dt \in {d \in TableTimes : InGap(g, d) => SeriesSlot(d) < 3} |->
        IF InGap(g, dt) THEN <<InvalidReading(SeriesSlot(dt))>>
        ELSE <<ValidReading(dt)>>]

\* the file whose first reading is at datetime o
Shift(t, o) == [d \in {x + o : x \in DOMAIN t} |-> t[d - o]]
Uploaded(g, o) == IF o = 0 THEN RawDf(g) ELSE Shift(RawDf(g), o)

\* What the user picks.  end_date is a midnight: the first day, two or three
\* days into the last week, or the last day of the series.  The range to
\* delete is none or the first day (00:00 to 23:45).
Gaps == [1..NumWeeks -> GapLens]
LastWeekStart == (1 + 7 * (NumWeeks - 1)) * MinutesPerDay
FirstDay == 0 * MinutesPerDay
LastDay == LastWeekStart + 7 * MinutesPerDay
CutEnds == {LastWeekStart + 2 * MinutesPerDay, LastWeekStart + 3 * MinutesPerDay}
NoDelete == <<>>
DeleteChoices == {NoDelete, <<0, MinutesPerDay - Freq>>}

Inputs ==
    {<<g, LastDay, r>> : g \in Gaps, r \in DeleteChoices}
    \cup {<<g, e, NoDelete>> : g \in Gaps, e \in CutEnds}
    \cup {<<[i \in 1..NumWeeks |-> SlotsPerWeek], FirstDay, r>> : r \in DeleteChoices}

-----------------------------------------------------------------------------
(* One call of generate_missing_dates, delete_data_by_date_range or         *)
(* calculate_accuracy_metrics on a small frame.                             *)

MaxReadings == 3
DeleteRows == 10

ReadingTimes == {0, 15, 20, 45}
ReadingValues == {120, 300}
Readings == ReadingTimes \X ReadingValues

ReadingRows == UNION {[1..n -> Readings] : n \in 1..MaxReadings}

\* a gridded frame of DeleteRows rows
DeleteFrame == [d \in {Freq * k : k \in 0..(DeleteRows - 1)} |-> <<ValidMin + (d \div Freq)>>]
DeleteBounds == {Freq * k : k \in 0..DeleteRows}

MetricTimes == {0, 15, 30}
MetricValues == {100, 110, NaN}
MetricFrames == UNION {[S -> {<<v>> : v \in MetricValues}] : S \in SUBSET MetricTimes}

None == [status |-> "none"]

MainIdle ==
    /\ gaps = <<>> /\ window = <<0, 0>> /\ delete_range = <<>> /\ pc = "idle"
    /\ data_clean = EmptyTable /\ data_with_all_dates = EmptyTable
    /\ wl_forecast = EmptyTable /\ data_missing = {} /\ data_not_missing = EmptyTable
    /\ weeks_with_fewer_missing = <<>> /\ weeks_with_more_missing = <<>>
    /\ done_weeks = <<>> /\ model = None /\ writes = EmptyTable
    /\ messages = <<>> /\ wl_up2 = EmptyTable

mainVars == <<gaps, window, delete_range, pc, data_clean, data_with_all_dates, wl_forecast,
              data_missing, data_not_missing, weeks_with_fewer_missing,
              weeks_with_more_missing, done_weeks, model, writes, messages, wl_up2>>

FnInit ==
    /\ variant \in Variants
    /\ uPc = "call"
    /\ uOut = None
    /\ \/ \E rows \in ReadingRows :
             uIn = [fn |-> "generate_missing_dates", data |-> TableOf(rows)]
       \/ \E ds \in DeleteBounds, de \in DeleteBounds :
             uIn = [fn |-> "delete_data_by_date_range", data |-> DeleteFrame,
                    delete_start_date |-> ds, delete_end_date |-> de]
       \/ \E o \in MetricFrames, f \in MetricFrames :
             uIn = [fn |-> "calculate_accuracy_metrics", original |-> o, filled |-> f]
    /\ MainIdle

GenerateMissingDatesCall ==
    /\ uPc = "call" /\ uIn.fn = "generate_missing_dates"
    /\ uOut' = [status |-> "returned", data |-> GenerateMissingDates(uIn.data)]
    /\ uPc' = "done"
    /\ UNCHANGED <<variant, uIn, mainVars>>

DeleteCall ==
    /\ uPc = "call" /\ uIn.fn = "delete_data_by_date_range"
    /\ \E r \in {DeleteDataByDateRange(variant, uIn.data, uIn.delete_start_date,
                                      uIn.delete_end_date)} :
          uOut' = [status |-> "returned", data |-> r.data, msg |-> r.msg]
    /\ uPc' = "done"
    /\ UNCHANGED <<variant, uIn, mainVars>>

MetricsCall ==
    /\ uPc = "call" /\ uIn.fn = "calculate_accuracy_metrics"
    /\ uOut' = CalculateAccuracyMetrics(uIn.original, uIn.filled)
    /\ uPc' = "done"
    /\ UNCHANGED <<variant, uIn, mainVars>>

FnNext == GenerateMissingDatesCall \/ DeleteCall \/ MetricsCall

SpecFn == FnInit /\ [][FnNext]_vars

-----------------------------------------------------------------------------
(* train_model and predict *)

Threshold == 288

\* streamlit_app: n_splits = min(3, len(X_train) // 2), and KFold needs at
\* least 2 splits; test: TimeSeriesSplit(n_splits=5) needs more samples than
\* splits.  RandomizedSearchCV.fit raises otherwise.
NSplits(v, n) == IF v = "test" THEN 5 ELSE Min2(3, n \div 2)
CVFits(v, n) == IF v = "test" THEN n > NSplits(v, n) ELSE NSplits(v, n) >= 2

Targets(scope) == {scope[d] : d \in DOMAIN scope}

\* scope: the training rows (datetime -> wl_up); n: len(X_train).  The feature
\* columns are not modelled: a fit depends on them only through the values it
\* predicts, which Predict bounds by the targets.
TrainModel(v, kind, week, scope, n) ==
    IF CVFits(v, n)
    THEN [status |-> "fitted", kind |-> kind, week |-> week, scope |-> DOMAIN scope,
          n |-> n, lo |-> SetMin(Targets(scope)), hi |-> SetMax(Targets(scope))]
    ELSE [status |-> "failed", kind |-> kind, week |-> week, scope |-> DOMAIN scope,
          n |-> n, lo |-> NaN, hi |-> NaN]

\* a forest's prediction is a mean of training targets: it lies between the
\* smallest and the largest of them; both ends are taken
Predict(m, dt) == IF (dt \div Freq) % 2 = 0 THEN m.lo ELSE m.hi

-----------------------------------------------------------------------------
(* The script: filter, clean_data, generate_missing_dates, then             *)
(* handle_missing_values_by_week.                                           *)

Restrict(t, lo, hi) == [d \in {x \in DOMAIN t : x >= lo /\ x <= hi} |-> t[d]]

Column(t) == [d \in DOMAIN t |-> t[d][1]]
NotNull(col) == [d \in {x \in DOMAIN col : ~IsNull(col[x])} |-> col[d]]
Nulls(col) == {d \in DOMAIN col : IsNull(col[d])}

\* end_date + pd.DateOffset(days=1)
FilterEnd(w) == w[2] + MinutesPerDay
\* the end_date handed to handle_missing_values_by_week
HandleEnd(v, w) == IF v = "test" THEN w[2] ELSE FilterEnd(w)

MainInit ==
    /\ variant \in Variants
    /\ \E in \in Inputs :
          /\ gaps = in[1]
          /\ window = <<0, in[2]>>
          /\ delete_range = in[3]
    /\ pc = "script"
    /\ uIn = None /\ uOut = None /\ uPc = "idle"
    /\ data_clean = EmptyTable /\ data_with_all_dates = EmptyTable
    /\ wl_forecast = EmptyTable /\ data_missing = {} /\ data_not_missing = EmptyTable
    /\ weeks_with_fewer_missing = <<>> /\ weeks_with_more_missing = <<>>
    /\ done_weeks = <<>> /\ model = None /\ writes = EmptyTable
    /\ messages = <<>> /\ wl_up2 = EmptyTable

\* the upload over the turn of the year, whole window, nothing deleted
YearEndInit ==
    /\ variant \in Variants
    /\ gaps \in Gaps
    /\ window = <<YearEndOrigin, YearEndOrigin + LastDay>>
    /\ delete_range = NoDelete
    /\ pc = "script"
    /\ uIn = None /\ uOut = None /\ uPc = "idle"
    /\ data_clean = EmptyTable /\ data_with_all_dates = EmptyTable
    /\ wl_forecast = EmptyTable /\ data_missing = {} /\ data_not_missing = EmptyTable
    /\ weeks_with_fewer_missing = <<>> /\ weeks_with_more_missing = <<>>
    /\ done_weeks = <<>> /\ model = None /\ writes = EmptyTable
    /\ messages = <<>> /\ wl_up2 = EmptyTable

\* delete_data_by_date_range as the script calls it; NoDelete stands for the
\* unticked option of test and for a range before the series in streamlit_app
Deleted(v, data, r) ==
    IF r = NoDelete THEN data ELSE DeleteDataByDateRange(v, data, r[1], r[2]).data

\* streamlit_app deletes from the gridded frame, test from the cleaned rows
\* before gridding
PreparedFrame(v, cleaned, r) ==
    IF v = "test" THEN GenerateMissingDates(Deleted(v, cleaned, r))
    ELSE Deleted(v, GenerateMissingDates(cleaned), r)

Prepare ==
    /\ pc = "script"
    /\ \E cleaned \in {CleanData(Restrict(Uploaded(gaps, window[1]), window[1], FilterEnd(window)))} :
          IF GridFails(cleaned)
          THEN /\ pc' = "raised:date_range"
               /\ UNCHANGED data_clean
          ELSE /\ pc' = "handle"
               /\ data_clean' = PreparedFrame(variant, cleaned, delete_range)
    /\ UNCHANGED <<inputs, data_with_all_dates,
                   wl_forecast, data_missing, data_not_missing,
                   weeks_with_fewer_missing, weeks_with_more_missing, done_weeks,
                   model, writes, messages, wl_up2>>

\* data_missing['week_of_year'].unique(): in order of first appearance
RECURSIVE UniqueWeeks(_)
UniqueWeeks(D) ==
    IF D = {} THEN <<>>
    ELSE LET w == WeekOfYear(SetMin(D))
         IN <<w>> \o UniqueWeeks({d \in D : WeekOfYear(d) # w})

MissingCount(D, week) == Cardinality({d \in D : WeekOfYear(d) = week})

\* SelectWeeks with the comparison < 288 in place of <= 288
RECURSIVE SelectWeeksStrict(_, _, _)
SelectWeeksStrict(ws, D, fewer) ==
    IF ws = <<>> THEN <<>>
    ELSE IF (MissingCount(D, Head(ws)) < Threshold) = fewer
         THEN <<Head(ws)>> \o SelectWeeksStrict(Tail(ws), D, fewer)
         ELSE SelectWeeksStrict(Tail(ws), D, fewer)

RECURSIVE SelectWeeks(_, _, _)
SelectWeeks(ws, D, fewer) ==
    IF ws = <<>> THEN <<>>
    ELSE IF (MissingCount(D, Head(ws)) <= Threshold) = fewer
         THEN <<Head(ws)>> \o SelectWeeks(Tail(ws), D, fewer)
         ELSE SelectWeeks(Tail(ws), D, fewer)

\* WeeksWithMoreMissing without the test of the count
WeeksWithAnyMissing(D) == UniqueWeeks(D)

WeeksWithFewerMissing(D) == SelectWeeks(UniqueWeeks(D), D, TRUE)
WeeksWithMoreMissing(D) == SelectWeeks(UniqueWeeks(D), D, FALSE)

\* NothingToPredict without the early return
AlwaysPredict(miss) == FALSE

\* if len(data_missing) == 0
NothingToPredict(miss) == miss = {}

HandleStart ==
    /\ pc = "handle"
    /\ \E data \in {Restrict(data_clean, window[1], HandleEnd(variant, window))} :
          IF GridFails(data)
          THEN /\ pc' = "raised:date_range"
               /\ UNCHANGED <<data_with_all_dates, data_missing, data_not_missing,
                              model, weeks_with_fewer_missing,
                              weeks_with_more_missing, messages>>
          ELSE \E col \in {Column(GenerateMissingDates(data))} :
               \E miss \in {Nulls(col)} :
               \E m \in {TrainModel(variant, "window", 0, NotNull(col),
                                    Cardinality(DOMAIN col \ miss))} :
                  /\ data_with_all_dates' = col
                  /\ data_missing' = miss
                  /\ data_not_missing' = NotNull(col)
                  /\ IF NothingToPredict(miss)
                     THEN /\ messages' = Append(messages, "No missing values to predict.")
                          /\ pc' = "returned"
                          /\ UNCHANGED <<model, weeks_with_fewer_missing,
                                         weeks_with_more_missing>>
                     ELSE /\ model' = m
                          /\ UNCHANGED messages
                          /\ IF m.status = "failed"
                             THEN /\ pc' = "raised:train_model"
                                  /\ UNCHANGED <<weeks_with_fewer_missing,
                                                 weeks_with_more_missing>>
                             ELSE /\ pc' = "low"
                                  /\ weeks_with_fewer_missing' = WeeksWithFewerMissing(miss)
                                  /\ weeks_with_more_missing' = WeeksWithMoreMissing(miss)
    /\ UNCHANGED <<inputs, data_clean, wl_forecast,
                   done_weeks, writes, wl_up2>>

-----------------------------------------------------------------------------
(* handle_missing_values_by_week: the two loops *)

Group(D, week) == {d \in D : WeekOfYear(d) = week}

\* WeekRows without the filter on week_of_year
AllRows(rows, week) == rows

WeekRows(rows, week) == [d \in {x \in DOMAIN rows : WeekOfYear(x) = week} |-> rows[d]]
MonthRows(rows, month) == [d \in {x \in DOMAIN rows : Month(x) = month} |-> rows[d]]

\* data_with_all_dates.loc[idx, 'wl_up'] = predicted_value     (streamlit_app)
FillWlUp(col, group, m) ==
    [d \in DOMAIN col |-> IF d \in group THEN Predict(m, d) ELSE col[d]]

\* data_with_all_dates.loc[idx, 'wl_forecast'] = predicted_value        (test)
FillForecast(fc, group, m) ==
    [d \in DOMAIN fc \cup group |-> IF d \in group THEN Predict(m, d) ELSE fc[d]]

CountWrites(w, group) ==
    [d \in DOMAIN w \cup group |->
        IF d \in group THEN (IF d \in DOMAIN w THEN w[d] ELSE 0) + 1 ELSE w[d]]

\* the rows of group get the predictions of the fitted model m
WritePredictions(group, m) ==
    /\ IF variant = "test"
       THEN /\ wl_forecast' = FillForecast(wl_forecast, group, m)
            /\ UNCHANGED data_with_all_dates
       ELSE /\ data_with_all_dates' = FillWlUp(data_with_all_dates, group, m)
            /\ UNCHANGED wl_forecast
    /\ writes' = CountWrites(writes, group)

\* the week the running loop is at
LowIndex == Len(done_weeks) + 1
HighIndex == Len(done_weeks) - Len(weeks_with_fewer_missing) + 1

LowWeek ==
    /\ pc = "low"
    /\ LowIndex <= Len(weeks_with_fewer_missing)
    /\ \E week \in {weeks_with_fewer_missing[LowIndex]} :
       \E group \in {Group(data_missing, week)} :
       \E week_data \in {WeekRows(data_not_missing, week)} :
       \E m \in {TrainModel(variant, "week", week, week_data,
                            Cardinality(DOMAIN week_data))} :
          /\ done_weeks' = Append(done_weeks, week)
          /\ IF DOMAIN week_data = {}
             THEN UNCHANGED <<pc, model, data_with_all_dates, wl_forecast, writes>>
             ELSE /\ model' = m
                  /\ IF m.status = "failed"
                     THEN /\ pc' = "raised:train_model"
                          /\ UNCHANGED <<data_with_all_dates, wl_forecast, writes>>
                     ELSE /\ UNCHANGED pc
                          /\ WritePredictions(group, m)
    /\ UNCHANGED <<inputs, data_clean, data_missing,
                   data_not_missing, weeks_with_fewer_missing,
                   weeks_with_more_missing, messages, wl_up2>>

\* data_not_missing = data_with_all_dates.dropna(subset=['wl_up'])
Refresh ==
    /\ pc = "low"
    /\ LowIndex > Len(weeks_with_fewer_missing)
    /\ data_not_missing' = NotNull(data_with_all_dates)
    /\ pc' = "high"
    /\ UNCHANGED <<inputs, data_clean,
                   data_with_all_dates, wl_forecast, data_missing,
                   weeks_with_fewer_missing, weeks_with_more_missing, done_weeks,
                   model, writes, messages, wl_up2>>

SeqSet(q) == {q[i] : i \in DOMAIN q}
WeeksWithMissing == SeqSet(weeks_with_fewer_missing) \cup SeqSet(weeks_with_more_missing)

\* PrevWeek without the clamp to the smallest week
PrevWeekUnclamped(week, W) == week - 1

\* NextWeek without the clamp to the largest week
NextWeekUnclamped(week, W) == week + 1

PrevWeek(week, W) == IF week > SetMin(W) THEN week - 1 ELSE week
NextWeek(week, W) == IF week < SetMax(W) THEN week + 1 ELSE week

\* UseMonth with >= 288 in place of > 288
UseMonthAtLeast(D, next_week) == MissingCount(D, next_week) >= Threshold

\* the month branch is taken when the next week has more than 288 missing rows
UseMonth(D, next_week) == MissingCount(D, next_week) > Threshold

CurrentMonth(group) == Month(SetMin(group))

\* pd.concat([prev_data, next_data]) and, in test, previous_month_data
Concat(a, b) == [d \in DOMAIN a \cup DOMAIN b |-> IF d \in DOMAIN a THEN a[d] ELSE b[d]]

CombinedData(v, rows, prev_week, next_week, month) ==
    IF v = "test"
    THEN Concat(Concat(WeekRows(rows, prev_week), WeekRows(rows, next_week)),
                MonthRows(rows, month - 1))
    ELSE Concat(WeekRows(rows, prev_week), WeekRows(rows, next_week))

CombinedLen(v, rows, prev_week, next_week, month) ==
    Cardinality(DOMAIN WeekRows(rows, prev_week))
    + Cardinality(DOMAIN WeekRows(rows, next_week))
    + (IF v = "test" THEN Cardinality(DOMAIN MonthRows(rows, month - 1)) ELSE 0)

\* NonMissingMonthData read from the running table instead of data_clean
NonMissingMonthDataLive(clean, month) == MonthRows(NotNull(data_with_all_dates), month)

NonMissingMonthData(clean, month) == MonthRows(NotNull(Column(clean)), month)

\* the model of a high week, with the prev_week and next_week it was given
WithNeighbours(m, prev_week, next_week) ==
    [status |-> m.status, kind |-> m.kind, week |-> m.week, scope |-> m.scope,
     n |-> m.n, lo |-> m.lo, hi |-> m.hi,
     prev_week |-> prev_week, next_week |-> next_week]

HighModel(v, week, group, D, rows, clean, W) ==
    WithNeighbours(
        IF UseMonth(D, NextWeek(week, W))
        THEN TrainModel(v, "month", week, NonMissingMonthData(clean, CurrentMonth(group)),
                        Cardinality(DOMAIN NonMissingMonthData(clean, CurrentMonth(group))))
        ELSE TrainModel(v, "adjacent", week,
                        CombinedData(v, rows, PrevWeek(week, W), NextWeek(week, W),
                                     CurrentMonth(group)),
                        CombinedLen(v, rows, PrevWeek(week, W), NextWeek(week, W),
                                    CurrentMonth(group))),
        PrevWeek(week, W), NextWeek(week, W))

HighWeek ==
    /\ pc = "high"
    /\ HighIndex <= Len(weeks_with_more_missing)
    /\ \E week \in {weeks_with_more_missing[HighIndex]} :
       \E group \in {Group(data_missing, week)} :
       \E m \in {HighModel(variant, week, group, data_missing, data_not_missing,
                           data_clean, WeeksWithMissing)} :
          /\ done_weeks' = Append(done_weeks, week)
          /\ model' = m
          /\ IF m.status = "failed"
             THEN /\ pc' = "raised:train_model"
                  /\ UNCHANGED <<data_with_all_dates, wl_forecast, writes>>
             ELSE /\ UNCHANGED pc
                  /\ WritePredictions(group, m)
    /\ UNCHANGED <<inputs, data_clean, data_missing,
                   data_not_missing, weeks_with_fewer_missing,
                   weeks_with_more_missing, messages, wl_up2>>

\* CombineFirst that takes the forecast column alone
ForecastOnly(col, fc) ==
    [d \in DOMAIN col |-> IF d \in DOMAIN fc THEN fc[d] ELSE NaN]

\* data_with_all_dates['wl_up'].combine_first(data_with_all_dates['wl_forecast'])
CombineFirst(col, fc) ==
    [d \in DOMAIN col |->
        IF ~IsNull(col[d]) THEN col[d]
        ELSE IF d \in DOMAIN fc THEN fc[d] ELSE NaN]

\* test builds wl_up2; the wl_forecast column exists only once a row was written
Return ==
    /\ pc = "high"
    /\ HighIndex > Len(weeks_with_more_missing)
    /\ IF variant = "test"
       THEN IF DOMAIN wl_forecast = {}
            THEN /\ pc' = "raised:wl_forecast"
                 /\ UNCHANGED wl_up2
            ELSE /\ pc' = "returned"
                 /\ wl_up2' = CombineFirst(data_with_all_dates, wl_forecast)
       ELSE /\ pc' = "returned"
            /\ UNCHANGED wl_up2
    /\ UNCHANGED <<inputs, data_clean,
                   data_with_all_dates, wl_forecast, data_missing, data_not_missing,
                   weeks_with_fewer_missing, weeks_with_more_missing, done_weeks,
                   model, writes, messages>>

Next == Prepare \/ HandleStart \/ LowWeek \/ Refresh \/ HighWeek \/ Return

Spec == MainInit /\ [][Next]_vars

SpecYearEnd == YearEndInit /\ [][Next]_vars

-----------------------------------------------------------------------------
(* Properties *)

GridDone == uPc = "done" /\ uIn.fn = "generate_missing_dates"
DeleteDone == uPc = "done" /\ uIn.fn = "delete_data_by_date_range"
MetricsDone == uPc = "done" /\ uIn.fn = "calculate_accuracy_metrics"

\* C1: generate_missing_dates returns (max - min) / 15 min + 1 rows, one per
\* 15-minute step from the smallest to the largest input timestamp, and no
\* two rows of the result share a timestamp.
C1_GridComplete ==
    GridDone =>
        /\ RowCount(uOut.data)
              = ((SetMax(DOMAIN uIn.data) - SetMin(DOMAIN uIn.data)) \div Freq) + 1
        /\ \A d \in DOMAIN uOut.data : Len(uOut.data[d]) = 1

\* the rows of the window's grid, read from the data_clean argument
WindowRows ==
    {d \in DOMAIN data_clean : d >= window[1] /\ d <= HandleEnd(variant, window)}
WindowMissing == {d \in WindowRows : IsNull(data_clean[d][1])}
WindowPresent == WindowRows \ WindowMissing

\* the state right after the two lists are built
Partitioned == pc = "low" /\ done_weeks = <<>>

\* C2: every week that has a missing row is in exactly one of
\* weeks_with_fewer_missing (at most 288 missing rows) and
\* weeks_with_more_missing (more than 288); the lists are disjoint and cover
\* the weeks of all missing rows.
C2_PartitionDisjointCover ==
    Partitioned =>
        \A miss \in {WindowMissing} :
        \A fewer \in {SeqSet(weeks_with_fewer_missing)} :
        \A more \in {SeqSet(weeks_with_more_missing)} :
            /\ fewer \cap more = {}
            /\ fewer \cup more = {WeekTab[d] : d \in miss}
            /\ \A w \in fewer : Cardinality({d \in miss : WeekTab[d] = w}) <= 288
            /\ \A w \in more : Cardinality({d \in miss : WeekTab[d] = w}) > 288
            /\ Cardinality(fewer) = Len(weeks_with_fewer_missing)
            /\ Cardinality(more) = Len(weeks_with_more_missing)

C2_Witness ==
    /\ pc = "low"
    /\ weeks_with_fewer_missing # <<>>
    /\ weeks_with_more_missing # <<>>
    /\ \E w \in SeqSet(weeks_with_fewer_missing) :
          Cardinality({d \in data_missing : WeekTab[d] = w}) = 288

\* C3: during one run no row receives a predicted value more than once.
C3_AtMostOneFill == \A d \in DOMAIN writes : writes[d] <= 1

C3_Witness ==
    /\ pc = "returned"
    /\ \E d \in DOMAIN writes : WeekTab[d] \in SeqSet(weeks_with_fewer_missing)
    /\ \E d \in DOMAIN writes : WeekTab[d] \in SeqSet(weeks_with_more_missing)

\* C4: for every row the run filled, wl_up is still absent in the returned
\* table.
C4_WlUpStillAbsent ==
    pc = "returned" => \A d \in DOMAIN writes : IsNull(data_with_all_dates[d])

\* C5: delete_data_by_date_range leaves wl_up unchanged and reports a
\* rejection when the range matches more than 30% of the rows, and leaves
\* wl_up unchanged and reports that no data was found when it matches none.
C5_DeletionGuard ==
    DeleteDone =>
        \A n \in {Cardinality({d \in DOMAIN uIn.data :
                      d >= uIn.delete_start_date /\ d <= uIn.delete_end_date})} :
            /\ 10 * n > 3 * Cardinality(DOMAIN uIn.data) =>
                  uOut.data = uIn.data /\ uOut.msg = "rejected"
            /\ n = 0 => uOut.data = uIn.data /\ uOut.msg = "no_data_found"

\* C6: on a reference and a reconstructed series that share no timestamp,
\* calculate_accuracy_metrics raises and shows no metric.
C6_NoOverlapRaises ==
    (MetricsDone /\ DOMAIN uIn.original \cap DOMAIN uIn.filled = {}) =>
        /\ uOut.status = "raised"
        /\ uOut.sse = NaN /\ uOut.sae = NaN

C6_Witness ==
    /\ MetricsDone
    /\ DOMAIN uIn.original # {} /\ DOMAIN uIn.filled # {}
    /\ DOMAIN uIn.original \cap DOMAIN uIn.filled = {}
    /\ uOut.status = "raised"

Raised == pc \in {"raised:date_range", "raised:train_model", "raised:wl_forecast"}
Ended == pc = "returned" \/ Raised

\* a week of the window whose 672 rows are all missing and whose two
\* neighbouring weeks have more than 288 missing rows each
WholeWeekMissing(miss, w) ==
    /\ Cardinality({d \in miss : WeekTab[d] = w}) = SlotsPerWeek
    /\ Cardinality({d \in miss : WeekTab[d] = w - 1}) > 288
    /\ Cardinality({d \in miss : WeekTab[d] = w + 1}) > 288

\* C7: such a week is trained on the month scope and the run completes with
\* a predicted value recorded for every row of the week.
C7_WholeWeekFilled ==
    Ended =>
        \A miss \in {WindowMissing} :
        \A w \in {WeekTab[d] : d \in miss} :
            WholeWeekMissing(miss, w) =>
                /\ pc = "returned"
                /\ \A d \in miss : WeekTab[d] = w => d \in DOMAIN writes

\* the value a filled row received
Filled(d) == IF variant = "test" THEN wl_forecast[d] ELSE data_with_all_dates[d]

\* C8: the model that fills a week with at most 288 missing rows and at
\* least one present row is trained on exactly the present rows of the
\* window that carry that week number, and every value it records lies in
\* 100..450.
C8_WeekScopeAndRange ==
    (pc = "low" /\ model.status = "fitted" /\ model.kind = "week") =>
        /\ model.scope = {d \in WindowPresent : WeekTab[d] = model.week}
        /\ \A d \in DOMAIN writes : Filled(d) >= 100 /\ Filled(d) <= 450

C8_Witness ==
    /\ pc = "low"
    /\ model.status = "fitted" /\ model.kind = "week"
    /\ \E d \in DOMAIN writes : WeekTab[d] = model.week /\ Filled(d) = 450
    /\ \E d \in WindowPresent : WeekTab[d] # model.week

\* C9: a training scope of zero rows does not abort the run.
C9_EmptyScopeDoesNotAbort == ~(pc = "raised:train_model" /\ model.n = 0)

\* C10: when the window has no missing row, the run returns with the message
\* that nothing is to be predicted, fits no model and leaves wl_up as it was.
C10_NothingToDo ==
    (Ended /\ WindowRows # {} /\ WindowMissing = {}) =>
        /\ pc = "returned"
        /\ messages = <<"No missing values to predict.">>
        /\ model = None
        /\ writes = EmptyTable
        /\ data_with_all_dates = [d \in WindowRows |-> data_clean[d][1]]

C10_Witness ==
    /\ pc = "returned"
    /\ WindowRows # {} /\ WindowMissing = {}
    /\ messages = <<"No missing values to predict.">>

\* C11: a week with at most 288 missing rows and no present row is left
\* out by the week-scoped step and then filled by the adjacent-week path, so
\* every missing row of it has a predicted value when the run returns.
C11_EmptyLowWeekFilled ==
    (pc = "returned" /\ data_missing # {}) =>
        \A present \in {WindowPresent} :
        \A w \in SeqSet(weeks_with_fewer_missing) :
            {d \in present : WeekTab[d] = w} = {} =>
                \A d \in data_missing : WeekTab[d] = w => d \in DOMAIN writes

\* C12: no low-severity week is processed after a high-severity one, and the
\* adjacent-weeks training set of a high-severity week holds every row of its
\* prev_week and next_week that the low-severity step filled.
C12_LowFillsInPool ==
    /\ \A i, j \in DOMAIN done_weeks :
          (i < j /\ done_weeks[i] \in SeqSet(weeks_with_more_missing)) =>
              done_weeks[j] \in SeqSet(weeks_with_more_missing)
    /\ (model.status = "fitted" /\ model.kind = "adjacent") =>
          \A d \in DOMAIN writes :
              (/\ WeekTab[d] \in SeqSet(weeks_with_fewer_missing)
               /\ WeekTab[d] \in {model.prev_week, model.next_week}) =>
                  d \in model.scope

\* C13: every training on a scope of at least one row ends with a fitted
\* model, cross-validated with at least 2 folds and no more folds than rows.
C13_FoldCountDegrades ==
    (model.status # "none" /\ model.n >= 1) =>
        /\ model.status = "fitted"
        /\ NSplits(variant, model.n) >= 2
        /\ NSplits(variant, model.n) <= model.n

\* the rows whose wl_up is present when the high loop starts: the readings of
\* the window and, where fills go to wl_up, the rows the low loop filled
PresentPool ==
    WindowPresent \cup
        (IF variant = "test" THEN {}
         ELSE {d \in DOMAIN writes : WeekTab[d] \in SeqSet(weeks_with_fewer_missing)})

\* the rows of data_clean with a reading, in the month of datetime first
MonthScope(first) ==
    {d \in DOMAIN data_clean : MonthTab[d] = MonthTab[first] /\ ~IsNull(data_clean[d][1])}

\* the rows of pool in weeks prev and next and, in test, in the month before
\* the month of datetime first
AdjacentScope(pool, prev, next, first) ==
    {d \in pool : \/ WeekTab[d] \in {prev, next}
                  \/ variant = "test" /\ MonthTab[d] = MonthTab[first] - 1}

HighTrained == model.status # "none" /\ model.kind \in {"month", "adjacent"}

C15_NeighboursClamped ==
    HighTrained =>
        \A weeks \in {{WeekTab[d] : d \in WindowMissing}} :
        \A lo \in {SetMin(weeks)}, hi \in {SetMax(weeks)} :
            /\ model.prev_week = IF model.week = lo THEN model.week ELSE model.week - 1
            /\ model.next_week = IF model.week = hi THEN model.week ELSE model.week + 1
            /\ model.prev_week \in lo..hi /\ model.next_week \in lo..hi
            /\ model.week - model.prev_week \in {0, 1}
            /\ model.next_week - model.week \in {0, 1}

\* week 1 follows week 52 in the window, both are high, and week 1 keeps
\* itself as prev_week
C15_Witness ==
    /\ HighTrained
    /\ model.week = 1 /\ model.prev_week = 1 /\ model.next_week = 2
    /\ 52 \in SeqSet(done_weeks) \cap SeqSet(weeks_with_more_missing)

\* the calendar month before month m
PriorMonth(m) == IF m = 1 THEN 12 ELSE m - 1

\* C16: in test, the training set of a high-severity week handled by the
\* adjacent-weeks path holds the present rows of the calendar month before
\* the month of the week's first missing row; for a week of January these are
\* the rows of December.
C16_PriorMonthInScope ==
    (variant = "test" /\ model.status # "none" /\ model.kind = "adjacent") =>
        \A first \in {SetMin({d \in WindowMissing : WeekTab[d] = model.week})} :
            {d \in WindowPresent : MonthTab[d] = PriorMonth(MonthTab[first])}
                \subseteq model.scope

\* C17: in the table test returns from a run that had missing rows, wl_up2
\* is wl_up on every row where wl_up is present and wl_forecast on every row
\* where it is absent (absent too where no forecast was written).
C17_MergedColumn ==
    (variant = "test" /\ pc = "returned" /\ data_missing # {}) =>
        \A present \in {WindowPresent} :
            /\ DOMAIN wl_up2 = DOMAIN data_with_all_dates
            /\ \A d \in DOMAIN wl_up2 :
                  IF d \in present
                  THEN wl_up2[d] = data_clean[d][1]
                  ELSE IF d \in DOMAIN wl_forecast
                       THEN wl_up2[d] = wl_forecast[d] /\ ~IsNull(wl_up2[d])
                       ELSE IsNull(wl_up2[d])

\* a returned table with original readings, forecasts and rows left absent
C17_Witness ==
    /\ variant = "test" /\ pc = "returned" /\ data_missing # {}
    /\ \E d \in WindowPresent : wl_up2[d] = data_clean[d][1]
    /\ \E d \in DOMAIN wl_up2 : d \in DOMAIN wl_forecast /\ wl_up2[d] = wl_forecast[d]
    /\ \E d \in DOMAIN wl_up2 : IsNull(wl_up2[d])

\* the weeks of the severity class of the week the last model was trained for
ClassOfModel ==
    IF model.kind = "week" THEN SeqSet(weeks_with_fewer_missing)
    ELSE SeqSet(weeks_with_more_missing)

C19_LargestWeekMonthScope ==
    HighTrained =>
        \A weeks \in {{WeekTab[d] : d \in WindowMissing}} :
            model.week = SetMax(weeks) =>
                model.kind = "month" /\ model.next_week = model.week

\* the only week with missing rows is high-severity and was filled from the
\* month scope
C19_Witness ==
    /\ pc = "returned"
    /\ weeks_with_fewer_missing = <<>> /\ Len(weeks_with_more_missing) = 1
    /\ model.status = "fitted" /\ model.kind = "month"
    /\ model.week = weeks_with_more_missing[1]
    /\ \E d \in DOMAIN writes : WeekTab[d] = model.week

====
